---- MODULE Spec2Model ----
(***************************************************************************)
(* Model of crypto_tracker.py: a Streamlit script that fetches quotes and  *)
(* 30-day price histories from the CoinGecko API through two               *)
(* st.cache_data-decorated functions, renders them, and re-executes        *)
(* itself on a widget interaction or after time.sleep(refresh_interval).   *)
(*                                                                         *)
(* Two specifications are given.  Spec is the script itself (one action    *)
(* per block of the script, plus the user and the clock).  ApiSpec drives  *)
(* the two cached functions directly with arbitrary arguments, at chosen   *)
(* instants, the way a caller of get_crypto_data / get_historical_data     *)
(* may.                                                                    *)
(***************************************************************************)
EXTENDS Integers, Sequences, FiniteSets, TLC

VARIABLES
    now,               \* wall clock, in seconds
    quoteCache,        \* st.cache_data store of get_crypto_data: key -> [val, created]
    histCache,         \* st.cache_data store of get_historical_data
    selected_cryptos,  \* sidebar multiselect (line 74)
    reselected,        \* the user has changed the multiselect since the page was opened
    refresh_interval,  \* sidebar slider (line 82)
    auto_refresh,      \* sidebar checkbox (line 91)
    button,            \* "Refresh Data Now" reads True in the current run (line 94)
    pc,                \* position of the script run
    i,                 \* Fetching: 0 = quotes call pending, k >= 1 = tab k pending
    crypto_data,       \* result of line 103
    details,           \* assets whose detail view was rendered in this run
    charts,            \* assets whose history fetch returned in this run
    warning,           \* the empty-selection warning is on the page (line 99)
    sleeping,          \* the run is inside time.sleep (line 229)
    wakeAt,            \* when the pending time.sleep ends
    trigger,           \* what started the current run
    calls,             \* calls of the two cached functions in the current run
    requests,          \* number of upstream requests sent so far
    lastFn,            \* which cached function the current run called last
    lastQuotes,        \* what the run's last get_crypto_data call did
    lastHist,          \* what the run's last get_historical_data call did
    quoteReqAt,        \* key -> time of the last /coins/markets request for it
    histReqAt          \* key -> time of the last market_chart request for it

vars == <<now, quoteCache, histCache, selected_cryptos, reselected, refresh_interval,
          auto_refresh, button, pc, i, crypto_data, details, charts, warning,
          sleeping, wakeAt, trigger, calls, requests, lastFn, lastQuotes, lastHist,
          quoteReqAt, histReqAt>>

widgets  == <<selected_cryptos, reselected, refresh_interval, auto_refresh>>
caches   == <<quoteCache, histCache>>
lastCall == <<calls, lastFn, lastQuotes, lastHist>>
sent     == <<requests, quoteReqAt, histReqAt>>
callLog  == <<lastCall, sent>>
page     == <<crypto_data, details, charts, warning>>

----------------------------------------------------------------------------
(* Bounds and program constants *)

MaxTime  == 300      \* the clock of Spec stops here
MaxRequests == 4     \* upstream requests per behaviour of Spec

QuotesTTL  == 300    \* @st.cache_data(ttl=300)
HistoryTTL == 3600   \* @st.cache_data(ttl=3600)
ChartDays  == 30     \* get_historical_data(crypto_id, 30)
HTTP_OK    == 200    \* response.status_code == 200

\* Three of the ten ids of available_cryptos; the default selection is these three.
Assets == {"bitcoin", "ethereum", "solana"}
DefaultSelection == <<"bitcoin", "ethereum", "solana">>

\* Values the multiselect takes in the model: lists of distinct asset ids, in
\* the order the user picked them.
Selections ==
    { <<>>, <<"bitcoin">>, DefaultSelection }

\* Slider: min 30, max 300, step 30; the model keeps the default and the maximum.
RefreshIntervals == {60, 300}
DefaultInterval  == 60

\* Non-success statuses the upstream is made to answer with.
ErrStatuses == {500}

\* Steps of the clock in Spec.
TickDeltas == {60}

Range(s) == { s[k] : k \in 1..Len(s) }

----------------------------------------------------------------------------
(* The upstream API.  A payload carries the request it answers (req), so    *)
(* that a value handed back for other parameters can be told apart.         *)

\* [] : what get_crypto_data returns on a non-200 status (line 39).
EmptyList == [req |-> <<>>, present |-> {}]

\* {'prices': []} : what get_historical_data returns on a non-200 status (line 56).
NoPrices == [req |-> <<"", 0>>, interval |-> "", points |-> FALSE]

\* requests.get(url, params) for /coins/markets: a 200 with all the requested
\* ids or with one of them left out (the API leaves out ids it does not list),
\* a non-200 status, or an exception raised by requests (connection error,
\* DNS, ...) or by response.json().
QuoteResponses(ids) ==
    { [status |-> HTTP_OK, raised |-> FALSE, json |-> [req |-> ids, present |-> S]] :
        S \in {Range(ids)} \cup { Range(ids) \ {a} : a \in Range(ids) } }
    \cup { [status |-> st, raised |-> FALSE, json |-> EmptyList] : st \in ErrStatuses }
    \cup { [status |-> 0, raised |-> TRUE, json |-> EmptyList] }

\* requests.get(url, params) for /coins/{id}/market_chart.
HistResponses(request) ==
    { [status |-> HTTP_OK, raised |-> FALSE,
       json |-> [req |-> <<request.id, request.days>>,
                 interval |-> request.interval, points |-> TRUE]] }
    \cup { [status |-> st, raised |-> FALSE, json |-> NoPrices] : st \in ErrStatuses }
    \cup { [status |-> 0, raised |-> TRUE, json |-> NoPrices] }

----------------------------------------------------------------------------
(* st.cache_data(ttl=...) *)

\* Variant of Fresh: the entry is still served at the instant created + ttl.
FreshInclusive(cache, key, ttl, t) ==
    key \in DOMAIN cache /\ t <= cache[key].created + ttl

\* An entry is served while the clock is before created + ttl.
Fresh(cache, key, ttl, t) ==
    key \in DOMAIN cache /\ t < cache[key].created + ttl

\* cache with entry stored under key.
Put(cache, key, entry) ==
    [k \in (DOMAIN cache) \cup {key} |-> IF k = key THEN entry ELSE cache[k]]

\* The decorator: a fresh entry is returned and the function body is not run;
\* otherwise the body runs and whatever it RETURNS is stored under the key, an
\* exception it raises is stored nowhere and propagates.  out is the outcome of
\* the body, were it run.
CacheData(cache, key, ttl, t, out) ==
    IF Fresh(cache, key, ttl, t)
    THEN [cache |-> cache, ret |-> cache[key].val, requested |-> FALSE,
          raised |-> FALSE, status |-> 0]
    ELSE [cache |-> IF out.raised THEN cache
                    ELSE Put(cache, key, [val |-> out.ret, created |-> t]),
          ret |-> out.ret, requested |-> TRUE,
          raised |-> out.raised, status |-> out.status]

\* The cache key is the hash of the arguments: the list of ids, in its order.
QuotesKey(crypto_ids) == crypto_ids

\* Variant of HistKey: the lookback window is left out of the key.
HistKeyIdOnly(crypto_id, days) == <<crypto_id, 0>>

\* The cache key of get_historical_data: both arguments.
HistKey(crypto_id, days) == <<crypto_id, days>>

----------------------------------------------------------------------------
(* The two fetch functions *)

\* Body of get_crypto_data (lines 23-39) given the answer to requests.get.
QuotesBody(crypto_ids, resp) ==
    [raised |-> resp.raised,
     status |-> resp.status,
     ret    |-> IF resp.status = HTTP_OK THEN resp.json ELSE EmptyList]

\* Variant of Granularity: the threshold is off by one.
GranularityFromOne(days) == IF days >= 1 THEN "daily" ELSE "hourly"

\* 'daily' if days > 1 else 'hourly' (line 48).
Granularity(days) == IF days > 1 THEN "daily" ELSE "hourly"

\* params of the market_chart request (lines 45-49).
HistRequest(crypto_id, days) ==
    [id |-> crypto_id, days |-> days, interval |-> Granularity(days)]

\* Body of get_historical_data (lines 44-56) given the answer to requests.get.
HistBody(crypto_id, days, resp) ==
    [raised |-> resp.raised,
     status |-> resp.status,
     ret    |-> IF resp.status = HTTP_OK THEN resp.json ELSE NoPrices]

\* get_crypto_data(crypto_ids) as the caller sees it.
get_crypto_data(crypto_ids, resp) ==
    CacheData(quoteCache, QuotesKey(crypto_ids), QuotesTTL, now,
              QuotesBody(crypto_ids, resp))

\* get_historical_data(crypto_id, days) as the caller sees it.
get_historical_data(crypto_id, days, resp) ==
    CacheData(histCache, HistKey(crypto_id, days), HistoryTTL, now,
              HistBody(crypto_id, days, resp))

EntryAge(cache, key) == IF key \in DOMAIN cache THEN now - cache[key].created ELSE 0

\* Bookkeeping of one call of get_crypto_data with result r.
LogQuotes(crypto_ids, r) ==
    /\ quoteCache' = r.cache
    /\ calls' = calls + 1
    /\ requests' = requests + (IF r.requested THEN 1 ELSE 0)
    /\ lastFn' = "quotes"
    /\ lastQuotes' = [args |-> crypto_ids, requested |-> r.requested,
                      status |-> r.status, raised |-> r.raised, ret |-> r.ret,
                      hadEntry |-> QuotesKey(crypto_ids) \in DOMAIN quoteCache,
                      entryAge |-> EntryAge(quoteCache, QuotesKey(crypto_ids))]
    /\ quoteReqAt' = IF r.requested
                     THEN Put(quoteReqAt, QuotesKey(crypto_ids), now) ELSE quoteReqAt
    /\ UNCHANGED <<histCache, lastHist, histReqAt>>

\* Bookkeeping of one call of get_historical_data with result r.
LogHist(crypto_id, days, r) ==
    /\ histCache' = r.cache
    /\ calls' = calls + 1
    /\ requests' = requests + (IF r.requested THEN 1 ELSE 0)
    /\ lastFn' = "history"
    /\ lastHist' = [args |-> <<crypto_id, days>>, requested |-> r.requested,
                    interval |-> IF r.requested
                                 THEN HistRequest(crypto_id, days).interval ELSE "",
                    status |-> r.status, raised |-> r.raised, ret |-> r.ret,
                    hadEntry |-> HistKey(crypto_id, days) \in DOMAIN histCache,
                    entryAge |-> EntryAge(histCache, HistKey(crypto_id, days))]
    /\ histReqAt' = IF r.requested
                    THEN Put(histReqAt, HistKey(crypto_id, days), now) ELSE histReqAt
    /\ UNCHANGED <<quoteCache, lastQuotes, quoteReqAt>>

\* lastQuotes and lastHist before any call.
NoQuotesCall ==
    [args |-> <<>>, requested |-> FALSE, status |-> 0, raised |-> FALSE,
     ret |-> EmptyList, hadEntry |-> FALSE, entryAge |-> 0]

NoHistCall ==
    [args |-> <<"", 0>>, requested |-> FALSE, interval |-> "", status |-> 0,
     raised |-> FALSE, ret |-> NoPrices, hadEntry |-> FALSE, entryAge |-> 0]

----------------------------------------------------------------------------
(* Initial state: the page has not been loaded, the caches are empty, the   *)
(* widgets hold their defaults.                                             *)

Init ==
    /\ now = 0
    /\ quoteCache = << >>
    /\ histCache = << >>
    /\ selected_cryptos = DefaultSelection
    /\ reselected = FALSE
    /\ refresh_interval = DefaultInterval
    /\ auto_refresh = TRUE
    /\ button = FALSE
    /\ pc = "Idle"
    /\ i = 0
    /\ crypto_data = EmptyList
    /\ details = {}
    /\ charts = {}
    /\ warning = FALSE
    /\ sleeping = FALSE
    /\ wakeAt = 0
    /\ trigger = "none"
    /\ calls = 0
    /\ requests = 0
    /\ lastFn = "none"
    /\ lastQuotes = NoQuotesCall
    /\ lastHist = NoHistCall
    /\ quoteReqAt = << >>
    /\ histReqAt = << >>

----------------------------------------------------------------------------
(* The script (Spec).  pc maps the run onto the refresh cycle:              *)
(*   "Idle"      the page has not been loaded yet                           *)
(*   "Start"     a run begins at the top of the script (lines 72-100)       *)
(*   "Fetching"  lines 103-224: the quotes call, then one tab per asset     *)
(*               with its history call                                      *)
(*   "Displayed" line 226 reached: everything of this run is on the page    *)
(*   "Waiting"   lines 227-230: in time.sleep, or the run has ended         *)
(*   "Stopped"   st.stop() at line 100 ended the run                        *)
(*   "Aborted"   an uncaught exception ended the run                        *)

UserTriggers == {"button", "widget"}

\* Positions at which no line of the script is executing.
AtRest == {"Waiting", "Stopped", "Aborted"}

\* Upstream requests a run with selection sel, started at time t, can send at
\* most: one for the quotes unless their entry is fresh, and one per asset that
\* gets a tab with a chart (all the selected ones when the quotes are requested,
\* those of the cached quotes otherwise) unless its history entry is fresh.
RequestsOfRun(sel, t) ==
    LET charted == IF Fresh(quoteCache, QuotesKey(sel), QuotesTTL, t)
                   THEN quoteCache[QuotesKey(sel)].val.present
                   ELSE Range(sel)
        stale   == { a \in charted :
                       ~Fresh(histCache, HistKey(a, ChartDays), HistoryTTL, t) }
    IN  IF sel = <<>> THEN 0
        ELSE (IF Fresh(quoteCache, QuotesKey(sel), QuotesTTL, t) THEN 0 ELSE 1)
             + Cardinality(stale)

\* A new run starts from the top: what the previous run put on the page and
\* held in its locals is dropped.  (The guard on requests keeps the model
\* finite: a run is started only when all the requests it can send fit.)
Rerun(why, sel, t) ==
    /\ requests + RequestsOfRun(sel, t) <= MaxRequests
    /\ pc' = "Start"
    /\ trigger' = why
    /\ sleeping' = FALSE
    /\ i' = 0
    /\ wakeAt' = 0
    /\ crypto_data' = EmptyList
    /\ details' = {}
    /\ charts' = {}
    /\ warning' = FALSE
    /\ calls' = 0
    /\ lastFn' = "none"
    /\ lastQuotes' = NoQuotesCall
    /\ lastHist' = NoHistCall

\* The browser opens the page: the first run.
InitialLoad ==
    /\ pc = "Idle"
    /\ Rerun("initial", selected_cryptos, now)
    /\ UNCHANGED <<now, caches, widgets, button, sent>>

\* The user clicks "Refresh Data Now": the script reruns with the button True.
ClickRefresh ==
    /\ pc \in AtRest
    /\ button' = TRUE
    /\ Rerun("button", selected_cryptos, now)
    /\ UNCHANGED <<now, caches, widgets, sent>>

\* The user changes the multiselect: the script reruns.
ChangeSelection(s) ==
    /\ pc \in AtRest
    /\ s # selected_cryptos
    /\ selected_cryptos' = s
    /\ reselected' = TRUE
    /\ button' = FALSE
    /\ Rerun("widget", s, now)
    /\ UNCHANGED <<now, caches, refresh_interval, auto_refresh, sent>>

\* The user moves the slider: the script reruns.
SetInterval(v) ==
    /\ pc \in AtRest
    /\ v # refresh_interval
    /\ refresh_interval' = v
    /\ button' = FALSE
    /\ Rerun("widget", selected_cryptos, now)
    /\ UNCHANGED <<now, caches, selected_cryptos, reselected, auto_refresh, sent>>

\* The user toggles the checkbox: the script reruns.
ToggleAutoRefresh ==
    /\ pc \in AtRest
    /\ auto_refresh' = ~auto_refresh
    /\ button' = FALSE
    /\ Rerun("widget", selected_cryptos, now)
    /\ UNCHANGED <<now, caches, selected_cryptos, reselected, refresh_interval, sent>>

\* Variant of NothingSelected: the check of line 98 never fires.
NothingSelectedIgnored == FALSE

\* if not selected_cryptos (line 98).
NothingSelected == selected_cryptos = <<>>

\* Lines 94-95: the button reads True, st.experimental_rerun() restarts the
\* script (the button reads False in the new run).
RefreshButtonRerun ==
    /\ pc = "Start"
    /\ button
    /\ button' = FALSE
    /\ UNCHANGED <<now, caches, widgets, pc, i, page, sleeping, wakeAt, trigger,
                   callLog>>

\* Lines 98-100: nothing selected: warn and stop the run.
EmptySelectionStop ==
    /\ pc = "Start"
    /\ ~button
    /\ NothingSelected
    /\ pc' = "Stopped"
    /\ warning' = TRUE
    /\ UNCHANGED <<now, caches, crypto_data, details, charts, widgets, button, i, sleeping, wakeAt, trigger,
                   callLog>>

\* Line 102: the run goes on to fetch.
EnterFetching ==
    /\ pc = "Start"
    /\ ~button
    /\ ~NothingSelected
    /\ pc' = "Fetching"
    /\ i' = 0
    /\ UNCHANGED <<now, caches, widgets, button, page, sleeping, wakeAt, trigger, callLog>>

\* Where the run stands after tab k.
AfterTab(k) == IF k >= Len(selected_cryptos) THEN "Displayed" ELSE "Fetching"

\* Lines 103-141: crypto_data = get_crypto_data(selected_cryptos); a truthy
\* result is tabulated and the tabs are created, a falsy one skips to line 226;
\* an exception ends the run.
FetchQuotes(resp) ==
    /\ pc = "Fetching"
    /\ i = 0
    /\ LET r == get_crypto_data(selected_cryptos, resp) IN
        /\ LogQuotes(selected_cryptos, r)
        /\ IF r.raised
           THEN /\ pc' = "Aborted"
                /\ UNCHANGED <<i, crypto_data>>
           ELSE /\ crypto_data' = r.ret
                /\ IF r.ret.present = {}
                   THEN pc' = "Displayed" /\ i' = 0
                   ELSE pc' = "Fetching" /\ i' = 1
    /\ UNCHANGED <<now, widgets, button, details, charts, warning, sleeping,
                   wakeAt, trigger>>

\* Variant of AbsentTabNext: the missing asset is dereferenced and the run dies.
AbsentTabRaises(k) == "Aborted"

\* Where the run stands after a tab whose asset is not in crypto_data: crypto
\* is None, `if crypto:` is false, the loop goes on.
AbsentTabNext(k) == AfterTab(k)

\* Lines 143-150 for an asset that is not in crypto_data: the tab stays empty.
SkipAbsentTab ==
    /\ pc = "Fetching"
    /\ i >= 1
    /\ selected_cryptos[i] \notin crypto_data.present
    /\ pc' = AbsentTabNext(i)
    /\ i' = i + 1
    /\ UNCHANGED <<now, caches, widgets, button, page, sleeping, wakeAt, trigger,
                   callLog>>

\* Lines 143-224 for an asset that is in crypto_data: the metric and returns
\* (col1), then hist_data = get_historical_data(crypto_id, 30) and the chart
\* (col2); an exception ends the run.
DetailTab(resp) ==
    /\ pc = "Fetching"
    /\ i >= 1
    /\ selected_cryptos[i] \in crypto_data.present
    /\ details' = details \cup {selected_cryptos[i]}
    /\ LET r == get_historical_data(selected_cryptos[i], ChartDays, resp) IN
        /\ LogHist(selected_cryptos[i], ChartDays, r)
        /\ IF r.raised
           THEN /\ pc' = "Aborted"
                /\ UNCHANGED <<i, charts>>
           ELSE /\ charts' = charts \cup {selected_cryptos[i]}
                /\ pc' = AfterTab(i)
                /\ i' = i + 1
    /\ UNCHANGED <<now, widgets, button, crypto_data, warning, sleeping, wakeAt,
                   trigger>>

\* Variant of AutoRefreshOn: the block sleeps and reruns whatever the checkbox says.
AutoRefreshAlways == TRUE

\* Whether the block at lines 227-230 sleeps and reruns.
AutoRefreshOn == auto_refresh

\* Lines 226-229: with auto-refresh the run goes into time.sleep(refresh_interval);
\* without it the run ends here.
AutoRefreshBlock ==
    /\ pc = "Displayed"
    /\ pc' = "Waiting"
    /\ sleeping' = AutoRefreshOn
    /\ wakeAt' = IF AutoRefreshOn THEN now + refresh_interval ELSE wakeAt
    /\ UNCHANGED <<now, caches, widgets, button, i, page, trigger, callLog>>

\* Line 230: the sleep is over, st.experimental_rerun().
SleepExpire ==
    /\ pc = "Waiting"
    /\ sleeping
    /\ wakeAt <= MaxTime
    /\ now' = wakeAt
    /\ Rerun("timer", selected_cryptos, wakeAt)
    /\ UNCHANGED <<caches, widgets, button, sent>>

\* Time passes; a sleeping run is not overslept.
Tick(d) ==
    /\ pc \in AtRest
    /\ now + d <= MaxTime
    /\ sleeping => now + d <= wakeAt
    /\ now' = now + d
    /\ UNCHANGED <<caches, widgets, button, pc, i, page, sleeping, wakeAt, trigger,
                   callLog>>

User ==
    \/ ClickRefresh
    \/ \E s \in Selections : ChangeSelection(s)
    \/ \E v \in RefreshIntervals : SetInterval(v)
    \/ ToggleAutoRefresh

Script ==
    \/ RefreshButtonRerun
    \/ EmptySelectionStop
    \/ EnterFetching
    \/ \E resp \in QuoteResponses(selected_cryptos) : FetchQuotes(resp)
    \/ SkipAbsentTab
    \/ /\ pc = "Fetching"
       /\ i >= 1
       /\ \E resp \in HistResponses(HistRequest(selected_cryptos[i], ChartDays)) :
              DetailTab(resp)
    \/ AutoRefreshBlock
    \/ SleepExpire

Next ==
    \/ InitialLoad
    \/ User
    \/ Script
    \/ \E d \in TickDeltas : Tick(d)

Spec == Init /\ [][Next]_vars

\* The script is a running program: a run that can take its next step takes it.
\* Nothing obliges the user to act or the clock of the model to advance.
FairSpec == Spec /\ WF_vars(InitialLoad) /\ WF_vars(Script)

----------------------------------------------------------------------------
(* The cached functions called directly (ApiSpec): any caller, any          *)
(* arguments, at the instants that matter to the two TTLs.                  *)

MaxApiCalls == 2     \* calls per behaviour of ApiSpec
MaxDays     == 2     \* lookback windows 1..MaxDays, and the script's 30

DaysSet == (1..MaxDays) \cup {ChartDays}

\* The last instant an entry written at 0 is served and the first it is not,
\* for each TTL.
\* Arguments the callers of ApiSpec pass.
ApiSelections == { <<"bitcoin">>, <<"bitcoin", "ethereum">>, <<"ethereum", "bitcoin">> }
ApiAssets == {"bitcoin", "ethereum"}

ApiInstants == {QuotesTTL - 1, QuotesTTL, HistoryTTL - 1, HistoryTTL}

ApiFrame == UNCHANGED <<widgets, button, pc, i, page, sleeping, wakeAt, trigger>>

ApiQuotes(ids, resp) ==
    /\ calls < MaxApiCalls
    /\ LogQuotes(ids, get_crypto_data(ids, resp))
    /\ UNCHANGED now
    /\ ApiFrame

ApiHistory(id, days, resp) ==
    /\ calls < MaxApiCalls
    /\ LogHist(id, days, get_historical_data(id, days, resp))
    /\ UNCHANGED now
    /\ ApiFrame

ApiTick(t) ==
    /\ t > now
    /\ now' = t
    /\ UNCHANGED <<caches, callLog>>
    /\ ApiFrame

ApiNext ==
    \/ \E ids \in ApiSelections : \E resp \in QuoteResponses(ids) :
           ApiQuotes(ids, resp)
    \/ \E id \in ApiAssets : \E days \in DaysSet :
           \E resp \in HistResponses(HistRequest(id, days)) : ApiHistory(id, days, resp)
    \/ \E t \in ApiInstants : ApiTick(t)

ApiSpec == Init /\ [][ApiNext]_vars

----------------------------------------------------------------------------
(* Properties *)

QuotesCalled == calls' = calls + 1 /\ lastFn' = "quotes"
HistCalled   == calls' = calls + 1 /\ lastFn' = "history"

\* C1: for both cached fetches and every key, a read before created + ttl
\* returns the stored value and sends no request, a read at or after
\* created + ttl sends a request again, and what a request returns is stored
\* with the time of the read (ttl = 300 for quotes, 3600 for history).
C1_TtlWindow ==
    [][ /\ QuotesCalled =>
            LET k == QuotesKey(lastQuotes'.args) IN
            /\ (k \in DOMAIN quoteCache /\ now < quoteCache[k].created + QuotesTTL)
                 => /\ ~lastQuotes'.requested
                    /\ lastQuotes'.ret = quoteCache[k].val
                    /\ quoteCache' = quoteCache
            /\ (k \in DOMAIN quoteCache /\ now >= quoteCache[k].created + QuotesTTL)
                 => lastQuotes'.requested
            /\ (lastQuotes'.requested /\ ~lastQuotes'.raised)
                 => quoteCache'[k] = [val |-> lastQuotes'.ret, created |-> now]
        /\ HistCalled =>
            LET k == HistKey(lastHist'.args[1], lastHist'.args[2]) IN
            /\ (k \in DOMAIN histCache /\ now < histCache[k].created + HistoryTTL)
                 => /\ ~lastHist'.requested
                    /\ lastHist'.ret = histCache[k].val
                    /\ histCache' = histCache
            /\ (k \in DOMAIN histCache /\ now >= histCache[k].created + HistoryTTL)
                 => lastHist'.requested
            /\ (lastHist'.requested /\ ~lastHist'.raised)
                 => histCache'[k] = [val |-> lastHist'.ret, created |-> now]
      ]_vars

\* C1 witness: a quotes read exactly QuotesTTL seconds after the entry was
\* written has sent a request again.
C1_Witness ==
    /\ lastFn = "quotes"
    /\ lastQuotes.hadEntry
    /\ lastQuotes.entryAge = QuotesTTL
    /\ lastQuotes.requested

\* C2: a fetch that ends in a non-success HTTP status stores nothing: both
\* caches are the same after the call as before it.
C2_FailedFetchStoresNothing ==
    [][ /\ (QuotesCalled /\ lastQuotes'.requested /\ ~lastQuotes'.raised
              /\ lastQuotes'.status # HTTP_OK)
            => quoteCache' = quoteCache
        /\ (HistCalled /\ lastHist'.requested /\ ~lastHist'.raised
              /\ lastHist'.status # HTTP_OK)
            => histCache' = histCache
      ]_vars

\* C3: whatever the upstream does, a fetch hands a value back to the script and
\* the run is never ended by it.
C3_FetchNeverEndsRun ==
    /\ ~lastQuotes.raised
    /\ ~lastHist.raised
    /\ pc # "Aborted"

\* C4: a run that has entered Fetching goes on to Displayed, whether its
\* fetches succeed or fail.  In Fetching only the script itself takes steps, so
\* the run gets to Displayed exactly when Fetching is never left for anything
\* else; a run that leaves it otherwise has ended, and nothing short of a new
\* action of the user starts another.
C4_FetchingOnlyToDisplayed ==
    [][ (pc = "Fetching" /\ pc' # "Fetching") => pc' = "Displayed" ]_vars

\* The same as a liveness property, for FairSpec: Fetching leads to Displayed.
FetchingLeadsToDisplayed == (pc = "Fetching") ~> (pc = "Displayed")

\* C5: while nothing is selected the run never gets to Fetching or beyond, no
\* cached function is called and no request is sent, and a run that has passed
\* line 98 has the warning on the page.
C5_EmptySelectionNoFetch ==
    [][ selected_cryptos' = <<>> =>
          /\ pc' \in {"Start", "Stopped"}
          /\ calls' = 0
          /\ requests' = requests
          /\ caches' = caches
          /\ quoteReqAt' = quoteReqAt /\ histReqAt' = histReqAt
          /\ (pc' = "Stopped" => warning')
          /\ (pc = "Start" /\ ~button /\ selected_cryptos = <<>>)
               => (pc' = "Stopped" /\ warning')
      ]_vars

\* C5 witness: a manual refresh with nothing selected has ended at st.stop()
\* with the warning shown.
C5_Witness ==
    /\ selected_cryptos = <<>>
    /\ trigger = "button"
    /\ pc = "Stopped"
    /\ warning

C7_Granularity ==
    (lastFn = "history" /\ lastHist.requested) =>
        /\ lastHist.args[2] > 1  => lastHist.interval = "daily"
        /\ lastHist.args[2] <= 1 => lastHist.interval = "hourly"

\* C7 witness: a request for a one-day window asked for hourly points.
C7_Witness ==
    /\ lastFn = "history"
    /\ lastHist.requested
    /\ lastHist.args[2] = 1
    /\ lastHist.interval = "hourly"

\* C8: a payload is stored only under the key of the parameters it was fetched
\* for, and a call only returns a payload fetched for its own parameters.
C8_NoKeyCollision ==
    /\ \A ids \in DOMAIN quoteCache :
          quoteCache[ids].val # EmptyList => quoteCache[ids].val.req = ids
    /\ \A id \in ApiAssets : \A days \in DaysSet :
          (HistKey(id, days) \in DOMAIN histCache
             /\ histCache[HistKey(id, days)].val # NoPrices)
            => histCache[HistKey(id, days)].val.req = <<id, days>>
    /\ (lastFn = "quotes" /\ ~lastQuotes.raised /\ lastQuotes.ret # EmptyList)
          => lastQuotes.ret.req = lastQuotes.args
    /\ (lastFn = "history" /\ ~lastHist.raised /\ lastHist.ret # NoPrices)
          => lastHist.ret.req = lastHist.args

\* C8 witness: with a payload cached for (bitcoin, 1 day), a read for
\* (bitcoin, 30 days) has been answered with a payload of its own.
C8_Witness ==
    /\ lastFn = "history"
    /\ lastHist.args = <<"bitcoin", ChartDays>>
    /\ lastHist.ret # NoPrices
    /\ <<"bitcoin", 1>> \in DOMAIN histCache
    /\ histCache[<<"bitcoin", 1>>].val # NoPrices
    /\ histCache[<<"bitcoin", 1>>].created + HistoryTTL > now

\* C9: the tab of a selected asset that is missing from crypto_data is passed
\* over without a history call and without ending the run, the tab of an asset
\* that is in crypto_data gets its detail view, and a run that reaches line 226
\* has shown exactly the selected assets that are in crypto_data.
C9_AbsentAssetSkipped ==
    [][ /\ (pc = "Fetching" /\ i >= 1 /\ selected_cryptos[i] \notin crypto_data.present)
            => /\ calls' = calls
               /\ requests' = requests
               /\ histReqAt' = histReqAt
               /\ details' = details
               /\ i' = i + 1
               /\ pc' = IF i < Len(selected_cryptos) THEN "Fetching" ELSE "Displayed"
        /\ (pc = "Fetching" /\ i >= 1 /\ selected_cryptos[i] \in crypto_data.present)
            => selected_cryptos[i] \in details'
        /\ pc' = "Displayed"
            => details' = Range(selected_cryptos') \cap crypto_data'.present
      ]_vars

\* C9 witness: a run has reached line 226 with the first selected asset missing
\* from crypto_data and a later one shown with its chart.
C9_Witness ==
    /\ pc = "Displayed"
    /\ Len(selected_cryptos) >= 2
    /\ selected_cryptos[1] \notin crypto_data.present
    /\ selected_cryptos[2] \in details
    /\ selected_cryptos[2] \in charts

\* C10: as long as the selection has not been changed, two upstream requests
\* for the same cache key are at least the TTL apart, whatever started the runs
\* that sent them.
C10_RequestsTtlApart ==
    [][ /\ (~reselected /\ QuotesCalled /\ lastQuotes'.requested
              /\ QuotesKey(lastQuotes'.args) \in DOMAIN quoteReqAt)
            => now - quoteReqAt[QuotesKey(lastQuotes'.args)] >= QuotesTTL
        /\ (~reselected /\ HistCalled /\ lastHist'.requested
              /\ HistKey(lastHist'.args[1], lastHist'.args[2]) \in DOMAIN histReqAt)
            => now - histReqAt[HistKey(lastHist'.args[1], lastHist'.args[2])]
                 >= HistoryTTL
      ]_vars

====
